---------------------------- MODULE Spec2Model ----------------------------
(***************************************************************************)
(* Chain Reaction: the engine (src/engine.ts) and the match state machine  *)
(* of the application (src/ChainReactionApp.tsx), with the part of the     *)
(* network module (src/NostrMultiplayer.ts) the application drives.        *)
(*                                                                         *)
(* Five specifications share the variables:                                *)
(*   Spec        the application: placements, cascade steps, turn ends,    *)
(*               move events delivered by the relays;                      *)
(*   SpecEngine  the engine's pure functions applied to grids built the    *)
(*               way the engine's tests build them (createGrid, then       *)
(*               direct writes to orbs and owner of single cells);         *)
(*   SpecAi      the move selection applied to such grids;                 *)
(*   SpecResolver the resolver of the engine's tests next to the cascade   *)
(*               of the application, on the same grid and placement;       *)
(*   SpecLobby   the player list of NostrMultiplayer under join, leave and *)
(*               start events and the operations of its own client.        *)
(***************************************************************************)
EXTENDS Integers, Sequences, FiniteSets, TLC

(***************************************************************************)
(* Size of the model.  The grid of the source is 9 x 6 and its safety      *)
(* limit 500; the model keeps the rules of the topology and of the cascade *)
(* and scales the sizes down.  On the 2 x 3 grid the longest cascade that  *)
(* drains its queue takes 6 queue steps, so a limit of 12 is reached only  *)
(* by cascades that never drain.                                           *)
(***************************************************************************)
\* Rows of the grid: 9 in the source, 2 here.
GRID_ROWS == 2

\* The size of the grid in the source, used where the topology alone is checked
SourceRows == 9

SourceCols == 6

\* Columns of the grid: 6 in the source.
GRID_COLS == 3

\* The safety limit of the cascade: 500 in the source.
MAX_EXPLOSIONS_PER_TURN == 12

\* No placement is made in a local match once the grid holds this many orbs.
MaxOrbs == 8

\* SpecEngine: the number of cells written to after createGrid.
MaxEdits == 2

\* SpecAi: the number of cells written to after the grid is created or filled.
MaxAiEdits == 1

\* The number of move events an online match is followed for
MaxOnlineOrbs == 5

\* The number of the latest move events a relay delivers again
MaxRelayEvents == 2

\* SpecResolver: no placement is made once the grid holds this many orbs.
MaxTestOrbs == 6

\* SpecLobby: the clients that publish events for one game code
MaxIds == 5

\* SpecLobby: the ids a start event's playerOrder is drawn from
MaxOrderIds == 2

\* handleJoin: if (this.players.length >= 4)
MaxPlayers == 4

\* SpecAi: the outcomes of Math.random() the model draws, k / RandomSteps
RandomSteps == 3

Players == 1..3

VARIABLES
    grid,              \* gameState.grid: cell index -> [orbs, owner]
    currentPlayer,     \* gameState.currentPlayer
    movesMade,         \* gameState.movesMade
    gameActive,        \* gameState.gameActive
    winner,            \* gameState.winner, 0 for null
    activePlayers,     \* gameState.activePlayers
    playerConfigs,     \* gameState.playerConfigs, the type of each entry
    gameMode,          \* "local" or "online-game"
    myPlayerNumber,    \* nostrMultiplayer.getMyPlayerNumber(), 0 when local
    isAnimating,       \* isAnimating
    explosionQueue,    \* explosionQueueRef.current
    explosionCount,    \* explosionCountRef.current
    lastExecutedMove,  \* lastExecutedMoveRef.current
    nostr,             \* NostrMultiplayer: movesMade, currentPlayerIndex, winner,
                       \* phase, processedEvents; in SpecLobby players, hostId,
                       \* phase and the turn fields
    relayEvents,       \* the move events published to the relays, in order
    aiTimer,           \* TRUE while the timeout set by the AI-turn effect is pending
    cleanTurn,         \* history: the running turn began with one legal placement
                       \* on a settled grid, no cascade running, counter at 0
    mover,             \* history: the competitor of the latest applied placement
    legalPlay,         \* history: every placement applied since the match started
                       \* passed validateMove and met no cascade in progress
    replica,           \* history: gameState of a second copy of an online match
                       \* that applied the same placements in the same order,
                       \* each after the cascade of the one before had ended
    last               \* the most recent operation and its outcome (history)

vars == <<grid, currentPlayer, movesMade, gameActive, winner, activePlayers,
          playerConfigs, gameMode, myPlayerNumber, isAnimating, explosionQueue,
          explosionCount, lastExecutedMove, nostr, relayEvents, aiTimer,
          cleanTurn, mover, legalPlay, replica, last>>

gameVars == <<grid, currentPlayer, movesMade, gameActive, winner>>

appVars == <<currentPlayer, movesMade, gameActive, winner, activePlayers,
             playerConfigs, gameMode, myPlayerNumber, isAnimating,
             explosionQueue, explosionCount, lastExecutedMove, nostr,
             relayEvents, aiTimer>>

(***************************************************************************)
(* Engine: grid topology                                                   *)
(***************************************************************************)
NULL == 0 - 1

Cells == 0..(GRID_ROWS * GRID_COLS - 1)

Coords == (0..(GRID_ROWS - 1)) \X (0..(GRID_COLS - 1))

rowOf(i) == i \div GRID_COLS

colOf(i) == i % GRID_COLS

\* createCell on a grid of rows x cols: the in-bounds neighbours of (r, c)
neighborCountAt(rows, cols, r, c) ==
    (IF r > 0 THEN 1 ELSE 0) + (IF r < rows - 1 THEN 1 ELSE 0)
  + (IF c > 0 THEN 1 ELSE 0) + (IF c < cols - 1 THEN 1 ELSE 0)

\* createCell with the capacity set to the number of neighbours
capacityAtNeighbors(rows, cols, r, c) == neighborCountAt(rows, cols, r, c)

capacityAt(rows, cols, r, c) == neighborCountAt(rows, cols, r, c) - 1

cellTypeAt(rows, cols, r, c) ==
    IF neighborCountAt(rows, cols, r, c) = 2 THEN "corner"
    ELSE IF neighborCountAt(rows, cols, r, c) = 3 THEN "edge"
    ELSE "center"

getNeighborCoordsAt(rows, cols, r, c) ==
    SelectSeq(<< <<r, c + 1>>, <<r, c - 1>>, <<r + 1, c>>, <<r - 1, c>> >>,
              LAMBDA n : n[1] >= 0 /\ n[2] >= 0 /\ n[1] < rows /\ n[2] < cols)

\* The same on the grid of the model
neighborCount(r, c) == neighborCountAt(GRID_ROWS, GRID_COLS, r, c)

capacity(r, c) == capacityAt(GRID_ROWS, GRID_COLS, r, c)

cellType(r, c) == cellTypeAt(GRID_ROWS, GRID_COLS, r, c)

createCell(r, c) == [orbs |-> 0, owner |-> 0]

createGrid == [i \in Cells |-> createCell(rowOf(i), colOf(i))]

\* getCell returns a reference to the cell object: its index, or NULL
getCell(g, r, c) ==
    IF r < 0 \/ c < 0 \/ r >= GRID_ROWS \/ c >= GRID_COLS
    THEN NULL
    ELSE r * GRID_COLS + c

\* validateMove without the owner rule
validateMoveNoOwnerCheck(g, r, c, player) == getCell(g, r, c) # NULL

validateMove(g, r, c, player) ==
    LET cell == getCell(g, r, c)
    IN  IF cell = NULL THEN FALSE
        ELSE IF g[cell].owner # 0 /\ g[cell].owner # player THEN FALSE
        ELSE TRUE

getNeighborCoords(r, c) == getNeighborCoordsAt(GRID_ROWS, GRID_COLS, r, c)

\* getAlivePlayers that counts the owners of cells without orbs too
getAlivePlayersAnyCell(g, ap) ==
    LET owners == {g[i].owner : i \in Cells}
    IN  SelectSeq(ap, LAMBDA p : p \in owners)

getAlivePlayers(g, ap) ==
    LET owners == {g[i].owner : i \in {j \in Cells : g[j].orbs > 0}}
    IN  SelectSeq(ap, LAMBDA p : p \in owners)

\* Variants of checkWinner and getNextPlayer with one rule dropped
checkWinnerNoFirstRound(g, ap, moves) ==
    LET alive == getAlivePlayers(g, ap)
    IN  IF Len(alive) = 1 THEN alive[1]
        ELSE IF Len(alive) = 0 THEN ap[1]
        ELSE 0

checkWinnerNoFallback(g, ap, moves) ==
    IF moves < Len(ap) THEN 0
    ELSE LET alive == getAlivePlayers(g, ap)
         IN  IF Len(alive) = 1 THEN alive[1] ELSE 0

\* checkWinner that returns the first competitor alive
checkWinnerFirstAlive(g, ap, moves) ==
    IF moves < Len(ap) THEN 0
    ELSE LET alive == getAlivePlayers(g, ap)
         IN  IF Len(alive) >= 1 THEN alive[1] ELSE ap[1]

checkWinner(g, ap, moves) ==
    IF moves < Len(ap) THEN 0
    ELSE LET alive == getAlivePlayers(g, ap)
         IN  IF Len(alive) = 1 THEN alive[1]
             ELSE IF Len(alive) = 0 THEN ap[1]
             ELSE 0

\* Array.prototype.indexOf, 0-based, -1 when absent
indexOf(s, x) ==
    IF \E i \in 1..Len(s) : s[i] = x
    THEN (CHOOSE i \in 1..Len(s) : s[i] = x /\ \A j \in 1..(i - 1) : s[j] # x) - 1
    ELSE 0 - 1

\* getNextPlayer without the first round
getNextPlayerAliveOnly(cur, ap, g, moves) ==
    LET alive == getAlivePlayers(g, ap)
    IN  IF Len(alive) <= 1 THEN cur
        ELSE alive[((indexOf(alive, cur) + 1) % Len(alive)) + 1]

getNextPlayerRosterOnly(cur, ap, g, moves) ==
    ap[((indexOf(ap, cur) + 1) % Len(ap)) + 1]

getNextPlayer(cur, ap, g, moves) ==
    IF moves < Len(ap)
    THEN ap[((indexOf(ap, cur) + 1) % Len(ap)) + 1]
    ELSE LET alive == getAlivePlayers(g, ap)
         IN  IF Len(alive) <= 1 THEN cur
             ELSE alive[((indexOf(alive, cur) + 1) % Len(alive)) + 1]

TotalOrbs(g) ==
    LET RECURSIVE sum(_)
        sum(i) == IF i < 0 THEN 0 ELSE g[i].orbs + sum(i - 1)
    IN  sum(GRID_ROWS * GRID_COLS - 1)

(***************************************************************************)
(* Engine: move selection of the non-human competitors.  Math.random() is  *)
(* a nondeterministic choice: aiScoreMove is the score without its jitter  *)
(* (a real in [0, 3)), and aiFindBestMove is the set of cells some outcome *)
(* of the jitters and of the final pick can return.                        *)
(***************************************************************************)
\* aiScoreMove without the penalty for opponents about to explode
aiScoreMoveNoPenalty(g, cell, player) ==
    LET r == rowOf(cell)
        c == colOf(cell)
        neighbors == getNeighborCoords(r, c)
        attack(n) ==
            LET nb == getCell(g, n[1], n[2])
            IN  IF g[nb].owner # 0 /\ g[nb].owner # player /\ g[nb].orbs > 0
                THEN 5 + (IF g[cell].orbs = capacity(r, c) THEN 10 ELSE 0)
                ELSE 0
        threat(n) ==
            LET nb == getCell(g, n[1], n[2])
            IN  IF g[nb].owner # 0 /\ g[nb].owner # player
                   /\ g[nb].orbs = capacity(n[1], n[2])
                THEN 8 ELSE 0
        RECURSIVE around(_)
        around(i) == IF i = 0 THEN 0
                     ELSE attack(neighbors[i]) + around(i - 1)
    IN  (IF g[cell].owner = player THEN 10 ELSE 0)
      + (IF g[cell].orbs = capacity(r, c) THEN 25
         ELSE IF g[cell].orbs = capacity(r, c) - 1 THEN 15 ELSE 0)
      + (IF cellType(r, c) = "corner" THEN 8
         ELSE IF cellType(r, c) = "edge" THEN 4 ELSE 0)
      + around(Len(neighbors))

aiScoreMove(g, cell, player) ==
    LET r == rowOf(cell)
        c == colOf(cell)
        neighbors == getNeighborCoords(r, c)
        attack(n) ==
            LET nb == getCell(g, n[1], n[2])
            IN  IF g[nb].owner # 0 /\ g[nb].owner # player /\ g[nb].orbs > 0
                THEN 5 + (IF g[cell].orbs = capacity(r, c) THEN 10 ELSE 0)
                ELSE 0
        threat(n) ==
            LET nb == getCell(g, n[1], n[2])
            IN  IF g[nb].owner # 0 /\ g[nb].owner # player
                   /\ g[nb].orbs = capacity(n[1], n[2])
                THEN 8 ELSE 0
        RECURSIVE around(_)
        around(i) == IF i = 0 THEN 0
                     ELSE attack(neighbors[i]) - threat(neighbors[i]) + around(i - 1)
    IN  (IF g[cell].owner = player THEN 10 ELSE 0)
      + (IF g[cell].orbs = capacity(r, c) THEN 25
         ELSE IF g[cell].orbs = capacity(r, c) - 1 THEN 15 ELSE 0)
      + (IF cellType(r, c) = "corner" THEN 8
         ELSE IF cellType(r, c) = "edge" THEN 4 ELSE 0)
      + around(Len(neighbors))

\* aiFindBestMove that collects every cell of the grid as a valid move
aiFindBestMoveAnyCell(g, player) ==
    LET validMoves == Cells
        score == [i \in validMoves |-> aiScoreMove(g, i, player)]
        surelyBefore(y, x) == score[y] - score[x] >= 3
    IN  {x \in validMoves :
            Cardinality({y \in validMoves : surelyBefore(y, x)}) < 3}

\* The cells aiFindBestMove can return; the empty set stands for null.
aiFindBestMove(g, player) ==
    LET validMoves == {i \in Cells : g[i].owner = 0 \/ g[i].owner = player}
        score == [i \in validMoves |-> aiScoreMove(g, i, player)]
        \* y is sorted before x whatever the jitters are
        surelyBefore(y, x) == score[y] - score[x] >= 3
    IN  {x \in validMoves :
            Cardinality({y \in validMoves : surelyBefore(y, x)}) < 3}

\* aiScoreMove that tries the move on the grid it was given
aiScoreMoveGridPlaces(g, cell, player) ==
    [g EXCEPT ![cell] = [orbs |-> @.orbs + 1, owner |-> player]]

\* The grid after aiScoreMove(grid, cell, player): the function reads cell,
\* its neighbours and player, and assigns only to its local score.
aiScoreMoveGrid(g, cell, player) == g

\* The grid after aiFindBestMove(grid, player): validMoves and scoredMoves are
\* new arrays, the sort is applied to scoredMoves, and aiScoreMove is called
\* for every valid move.
aiFindBestMoveGrid(g, player) ==
    LET validMoves == {i \in Cells : g[i].owner = 0 \/ g[i].owner = player}
        RECURSIVE scored(_, _)
        scored(acc, i) ==
            IF i > GRID_ROWS * GRID_COLS - 1 THEN acc
            ELSE scored(IF i \in validMoves THEN aiScoreMoveGrid(acc, i, player)
                        ELSE acc, i + 1)
    IN  scored(g, 0)

(***************************************************************************)
(* NostrMultiplayer: the turn bookkeeping the application drives           *)
(***************************************************************************)
advancePlayer(nm) ==
    [nm EXCEPT !.currentPlayerIndex = (@ + 1) % Len(activePlayers),
               !.movesMade = @ + 1]

setWinner(nm, playerNumber) ==
    [nm EXCEPT !.winner = playerNumber, !.phase = "finished"]

\* getCurrentPlayer and isMyTurn: players[currentPlayerIndex] is this
\* participant; players[i] has playerNumber i + 1
isMyTurn(nm) == nm.currentPlayerIndex + 1 = myPlayerNumber

\* Date.now() at publication: later than that of every event published before
now(events) ==
    IF events = <<>> THEN 1 ELSE events[Len(events)].timestamp + 1

\* relay.publish: the relays hold the event; the model keeps the latest
\* MaxRelayEvents of them
publish(events, e) ==
    LET all == Append(events, e)
    IN  IF Len(all) > MaxRelayEvents THEN Tail(all) ELSE all

\* makeMove and publishEvent: the move event handed to every relay.  The sender
\* and the timestamp make the key processEvent dedupes on.
makeMove(w, r, c) ==
    publish(w.relayEvents,
            [sender |-> myPlayerNumber, r |-> r, c |-> c,
             player |-> myPlayerNumber, moveNumber |-> w.nostr.movesMade + 1,
             timestamp |-> now(w.relayEvents)])

(***************************************************************************)
(* Application.  Handlers are functions of the "world": gameState and the  *)
(* refs a handler reads and writes.                                        *)
(***************************************************************************)
World ==
    [grid |-> grid, currentPlayer |-> currentPlayer, movesMade |-> movesMade,
     gameActive |-> gameActive, winner |-> winner, isAnimating |-> isAnimating,
     explosionQueue |-> explosionQueue, explosionCount |-> explosionCount,
     lastExecutedMove |-> lastExecutedMove, nostr |-> nostr,
     relayEvents |-> relayEvents, aiTimer |-> aiTimer]

\* cell.owner = player; cell.orbs++
placeOrb(g, cell, player) ==
    [g EXCEPT ![cell] = [orbs |-> @.orbs + 1, owner |-> player]]

\* The state updater of executeMove with every placement queued for explosion
executeMoveUpdateAlwaysQueues(w, r, c, player) ==
    LET cell == getCell(w.grid, r, c)
    IN  IF cell = NULL THEN w
        ELSE [w EXCEPT !.grid = placeOrb(w.grid, cell, player),
                       !.explosionQueue = Append(@, <<r, c>>),
                       !.isAnimating = TRUE]

\* The state updater of executeMove (setGameState(prev => ...))
executeMoveUpdate(w, r, c, player) ==
    LET cell == getCell(w.grid, r, c)
    IN  IF cell = NULL THEN w
        ELSE
        LET newGrid == placeOrb(w.grid, cell, player)
        IN  IF newGrid[cell].orbs > capacity(r, c)
            THEN [w EXCEPT !.grid = newGrid,
                           !.explosionQueue = Append(@, <<r, c>>),
                           !.isAnimating = TRUE]
            ELSE
            LET newMovesMade == w.movesMade + 1
                win == checkWinner(newGrid, activePlayers, newMovesMade)
            IN  IF win # 0
                THEN [w EXCEPT !.grid = newGrid, !.movesMade = newMovesMade,
                               !.winner = win, !.gameActive = FALSE,
                               !.nostr = IF gameMode = "online-game"
                                         THEN setWinner(@, win) ELSE @]
                ELSE [w EXCEPT !.grid = newGrid, !.movesMade = newMovesMade,
                               !.currentPlayer =
                                   getNextPlayer(w.currentPlayer, activePlayers,
                                                 newGrid, newMovesMade),
                               !.nostr = IF gameMode = "online-game"
                                         THEN advancePlayer(@) ELSE @]

\* executeMove with a move key made of the cell alone
executeMoveKeyIsCell(w, r, c, player) ==
    IF ~w.gameActive \/ w.winner # 0 THEN w
    ELSE IF ~validateMove(w.grid, r, c, player) THEN w
    ELSE LET moveKey == <<r, c, 0, "local">>
         IN  IF w.lastExecutedMove = moveKey THEN w
             ELSE executeMoveUpdate(
                      [w EXCEPT !.lastExecutedMove = moveKey,
                                !.relayEvents = IF gameMode = "online-game"
                                                THEN makeMove(w, r, c) ELSE @],
                      r, c, player)

executeMove(w, r, c, player) ==
    IF ~w.gameActive \/ w.winner # 0 THEN w
    ELSE IF ~validateMove(w.grid, r, c, player) THEN w
    ELSE LET moveKey == <<r, c, w.movesMade + 1, "local">>
         IN  IF w.lastExecutedMove = moveKey THEN w
             ELSE executeMoveUpdate(
                      [w EXCEPT !.lastExecutedMove = moveKey,
                                !.relayEvents = IF gameMode = "online-game"
                                                THEN makeMove(w, r, c) ELSE @],
                      r, c, player)

\* The state updater of executeRemoteMove
executeRemoteMoveUpdate(w, r, c, player) ==
    LET cell == getCell(w.grid, r, c)
    IN  IF cell = NULL THEN w
        ELSE
        LET newGrid == placeOrb(w.grid, cell, player)
        IN  IF newGrid[cell].orbs > capacity(r, c)
            THEN [w EXCEPT !.grid = newGrid,
                           !.explosionQueue = Append(@, <<r, c>>),
                           !.isAnimating = TRUE]
            ELSE
            LET newMovesMade == w.movesMade + 1
                win == checkWinner(newGrid, activePlayers, newMovesMade)
            IN  IF win # 0
                THEN [w EXCEPT !.grid = newGrid, !.movesMade = newMovesMade,
                               !.winner = win, !.gameActive = FALSE,
                               !.nostr = setWinner(@, win)]
                ELSE [w EXCEPT !.grid = newGrid, !.movesMade = newMovesMade,
                               !.currentPlayer =
                                   getNextPlayer(w.currentPlayer, activePlayers,
                                                 newGrid, newMovesMade),
                               !.nostr = advancePlayer(@)]

\* executeRemoteMove without the test of gameActive and winner
executeRemoteMoveAnyTime(w, r, c, player) ==
    executeRemoteMoveUpdate(w, r, c, player)

executeRemoteMove(w, r, c, player) ==
    IF ~w.gameActive \/ w.winner # 0 THEN w
    ELSE executeRemoteMoveUpdate(w, r, c, player)

\* NostrMultiplayer.handleMove, then the 'move' branch of handleNostrEvent
handleNostrEventMove(w, r, c, player, moveNumber) ==
    IF moveNumber <= w.nostr.movesMade THEN w
    ELSE LET moveKey == <<r, c, moveNumber, "">>
         IN  IF w.lastExecutedMove = moveKey THEN w
             ELSE executeRemoteMove([w EXCEPT !.lastExecutedMove = moveKey],
                                    r, c, player)

\* `${type}-${senderId}-${data.timestamp}`
eventKey(e) == <<"move", e.sender, e.timestamp>>

\* processEvent without the test that skips this participant's own moves
processEventNoOwnSkip(w, e) ==
    IF eventKey(e) \in w.nostr.processedEvents THEN w
    ELSE handleNostrEventMove(
             [w EXCEPT !.nostr.processedEvents = @ \cup {eventKey(e)}],
             e.r, e.c, e.player, e.moveNumber)

\* NostrMultiplayer.processEvent for a 'move' event a relay delivers
processEvent(w, e) ==
    IF eventKey(e) \in w.nostr.processedEvents THEN w
    ELSE LET w1 == [w EXCEPT !.nostr.processedEvents = @ \cup {eventKey(e)}]
         IN  IF e.sender = myPlayerNumber THEN w1
             ELSE handleNostrEventMove(w1, e.r, e.c, e.player, e.moveNumber)

Range(s) == {s[i] : i \in 1..Len(s)}

\* landOrb that leaves the owner of the target cell as it was
landOrbKeepsOwner(acc, n, ownerPlayer) ==
    LET target == getCell(acc.g, n[1], n[2])
        g2 == [acc.g EXCEPT ![target] = [orbs |-> @.orbs + 1, owner |-> @.owner]]
    IN  [g |-> g2,
         q |-> IF g2[target].orbs > capacity(n[1], n[2]) /\ n \notin Range(acc.q)
               THEN Append(acc.q, n) ELSE acc.q]

\* landOrb that queues a cell only when it is two orbs over its capacity
landOrbLateQueue(acc, n, ownerPlayer) ==
    LET target == getCell(acc.g, n[1], n[2])
        g2 == [acc.g EXCEPT ![target] = [orbs |-> @.orbs + 1, owner |-> ownerPlayer]]
    IN  [g |-> g2,
         q |-> IF g2[target].orbs > capacity(n[1], n[2]) + 1 /\ n \notin Range(acc.q)
               THEN Append(acc.q, n) ELSE acc.q]

\* landOrb without the queueing of a cell that went over its capacity
landOrbNoQueue(acc, n, ownerPlayer) ==
    LET target == getCell(acc.g, n[1], n[2])
    IN  [g |-> [acc.g EXCEPT ![target] =
                   [orbs |-> @.orbs + 1, owner |-> ownerPlayer]],
         q |-> acc.q]

\* One neighbour of the explosion step: the orb lands, the cell is queued
landOrb(acc, n, ownerPlayer) ==
    LET target == getCell(acc.g, n[1], n[2])
        g2 == [acc.g EXCEPT ![target] = [orbs |-> @.orbs + 1, owner |-> ownerPlayer]]
    IN  [g |-> g2,
         q |-> IF g2[target].orbs > capacity(n[1], n[2]) /\ n \notin Range(acc.q)
               THEN Append(acc.q, n) ELSE acc.q]

\* explosionStep with the exploding cell emptied instead of reduced
explosionStepZeroes(w) ==
    LET rc == Head(w.explosionQueue)
        cell == getCell(w.grid, rc[1], rc[2])
        w1 == [w EXCEPT !.explosionQueue = Tail(@), !.explosionCount = @ + 1]
    IN  IF w.grid[cell].orbs <= capacity(rc[1], rc[2]) THEN w1
        ELSE
        LET ownerPlayer == w.grid[cell].owner
            g1 == [w.grid EXCEPT ![cell] = [orbs |-> 0, owner |-> 0]]
            neighbors == getNeighborCoords(rc[1], rc[2])
            RECURSIVE fly(_)
            fly(i) == IF i = 0 THEN [g |-> g1, q |-> w1.explosionQueue]
                      ELSE landOrb(fly(i - 1), neighbors[i], ownerPlayer)
            res == fly(Len(neighbors))
        IN  [w1 EXCEPT !.grid = res.g, !.explosionQueue = res.q]

\* explosionStep that reads the owner after the exploding cell was reduced
explosionStepOwnerAfterReset(w) ==
    LET rc == Head(w.explosionQueue)
        cell == getCell(w.grid, rc[1], rc[2])
        w1 == [w EXCEPT !.explosionQueue = Tail(@), !.explosionCount = @ + 1]
    IN  IF w.grid[cell].orbs <= capacity(rc[1], rc[2]) THEN w1
        ELSE
        LET orbs1 == w.grid[cell].orbs - (capacity(rc[1], rc[2]) + 1)
            g1 == [w.grid EXCEPT ![cell] =
                      [orbs |-> orbs1, owner |-> IF orbs1 = 0 THEN 0 ELSE @.owner]]
            ownerPlayer == g1[cell].owner
            neighbors == getNeighborCoords(rc[1], rc[2])
            RECURSIVE fly(_)
            fly(i) == IF i = 0 THEN [g |-> g1, q |-> w1.explosionQueue]
                      ELSE landOrb(fly(i - 1), neighbors[i], ownerPlayer)
            res == fly(Len(neighbors))
        IN  [w1 EXCEPT !.grid = res.g, !.explosionQueue = res.q]

\* explosionStep that leaves the owner of an emptied cell in place
explosionStepKeepsOwner(w) ==
    LET rc == Head(w.explosionQueue)
        cell == getCell(w.grid, rc[1], rc[2])
        w1 == [w EXCEPT !.explosionQueue = Tail(@), !.explosionCount = @ + 1]
    IN  IF w.grid[cell].orbs <= capacity(rc[1], rc[2]) THEN w1
        ELSE
        LET ownerPlayer == w.grid[cell].owner
            orbs1 == w.grid[cell].orbs - (capacity(rc[1], rc[2]) + 1)
            g1 == [w.grid EXCEPT ![cell] =
                      [orbs |-> orbs1, owner |-> @.owner]]
            neighbors == getNeighborCoords(rc[1], rc[2])
            RECURSIVE fly(_)
            fly(i) == IF i = 0 THEN [g |-> g1, q |-> w1.explosionQueue]
                      ELSE landOrb(fly(i - 1), neighbors[i], ownerPlayer)
            res == fly(Len(neighbors))
        IN  [w1 EXCEPT !.grid = res.g, !.explosionQueue = res.q]

\* processExplosion, the explosion step: one queue entry is shifted and exploded
explosionStep(w) ==
    LET rc == Head(w.explosionQueue)
        cell == getCell(w.grid, rc[1], rc[2])
        w1 == [w EXCEPT !.explosionQueue = Tail(@), !.explosionCount = @ + 1]
    IN  IF w.grid[cell].orbs <= capacity(rc[1], rc[2]) THEN w1
        ELSE
        LET ownerPlayer == w.grid[cell].owner
            orbs1 == w.grid[cell].orbs - (capacity(rc[1], rc[2]) + 1)
            g1 == [w.grid EXCEPT ![cell] =
                      [orbs |-> orbs1, owner |-> IF orbs1 = 0 THEN 0 ELSE @.owner]]
            neighbors == getNeighborCoords(rc[1], rc[2])
            RECURSIVE fly(_)
            fly(i) == IF i = 0 THEN [g |-> g1, q |-> w1.explosionQueue]
                      ELSE landOrb(fly(i - 1), neighbors[i], ownerPlayer)
            res == fly(Len(neighbors))
        IN  [w1 EXCEPT !.grid = res.g, !.explosionQueue = res.q]

\* processExplosion, the queue is empty: the turn ends
endOfChain(w) ==
    LET w1 == [w EXCEPT !.explosionCount = 0, !.isAnimating = FALSE]
    IN  IF w.winner # 0 THEN w1
        ELSE
        LET newMovesMade == w.movesMade + 1
            win == checkWinner(w.grid, activePlayers, newMovesMade)
            alivePlayers == getAlivePlayers(w.grid, activePlayers)
            finalWinner == IF Len(alivePlayers) >= 1 THEN alivePlayers[1]
                           ELSE w.currentPlayer
            nextPlayer == getNextPlayer(w.currentPlayer, activePlayers, w.grid,
                                        newMovesMade)
            online == gameMode = "online-game"
        IN  IF win # 0
            THEN [w1 EXCEPT !.movesMade = newMovesMade, !.winner = win,
                            !.gameActive = FALSE,
                            !.nostr = IF online THEN setWinner(@, win) ELSE @]
            ELSE IF Len(alivePlayers) <= 1 /\ newMovesMade >= Len(activePlayers)
            THEN [w1 EXCEPT !.movesMade = newMovesMade, !.winner = finalWinner,
                            !.gameActive = FALSE,
                            !.nostr = IF online THEN setWinner(@, finalWinner) ELSE @]
            ELSE IF nextPlayer = w.currentPlayer /\ Len(alivePlayers) <= 1
            THEN [w1 EXCEPT !.movesMade = newMovesMade, !.winner = w.currentPlayer,
                            !.gameActive = FALSE,
                            !.nostr = IF online THEN setWinner(@, w.currentPlayer) ELSE @]
            ELSE [w1 EXCEPT !.movesMade = newMovesMade, !.currentPlayer = nextPlayer,
                            !.nostr = IF online THEN advancePlayer(@) ELSE @]

\* maxExplosions that also ends the match
maxExplosionsAbort(w) ==
    [w EXCEPT !.explosionQueue = <<>>, !.explosionCount = 0,
              !.isAnimating = FALSE, !.gameActive = FALSE]

\* processExplosion, the safety limit: the chain is cut, the turn does not end
maxExplosions(w) ==
    [w EXCEPT !.explosionQueue = <<>>, !.explosionCount = 0, !.isAnimating = FALSE]

processExplosion(w) ==
    IF w.explosionCount >= MAX_EXPLOSIONS_PER_TURN THEN maxExplosions(w)
    ELSE IF Len(w.explosionQueue) = 0 THEN endOfChain(w)
    ELSE explosionStep(w)

configType(p) ==
    IF p \in 1..Len(playerConfigs) THEN playerConfigs[p] ELSE "undefined"

\* The AI-turn effect; it runs again after each state it sets.
RECURSIVE aiTurnEffect(_, _)
aiTurnEffect(w, fuel) ==
    IF ~w.gameActive \/ w.isAnimating \/ w.winner # 0 \/ fuel = 0
    THEN [w EXCEPT !.aiTimer = FALSE]
    ELSE
    LET alivePlayers == getAlivePlayers(w.grid, activePlayers)
        ownersWithOrbs == {w.grid[i].owner : i \in {j \in Cells : w.grid[j].orbs > 0}}
    IN  IF Len(alivePlayers) <= 1 /\ w.movesMade >= Len(activePlayers)
        THEN [w EXCEPT !.winner = IF Len(alivePlayers) >= 1 THEN alivePlayers[1]
                                  ELSE w.currentPlayer,
                       !.gameActive = FALSE, !.aiTimer = FALSE]
        ELSE IF configType(w.currentPlayer) # "ai"
        THEN [w EXCEPT !.aiTimer = FALSE]
        ELSE IF w.currentPlayer \notin ownersWithOrbs
                /\ aiFindBestMove(w.grid, w.currentPlayer) = {}
        THEN LET nextPlayer == getNextPlayer(w.currentPlayer, activePlayers,
                                             w.grid, w.movesMade)
             IN  IF nextPlayer = w.currentPlayer
                 THEN [w EXCEPT !.winner = w.currentPlayer, !.gameActive = FALSE,
                                !.aiTimer = FALSE]
                 ELSE aiTurnEffect([w EXCEPT !.currentPlayer = nextPlayer], fuel - 1)
        ELSE [w EXCEPT !.aiTimer = TRUE]

gameStateOf(w) == <<w.grid, w.currentPlayer, w.movesMade, w.gameActive, w.winner>>

\* A render after a handler: the effects run when gameState or isAnimating changed
render(old, new) ==
    IF gameStateOf(old) # gameStateOf(new) \/ old.isAnimating # new.isAnimating
    THEN aiTurnEffect(new, Len(activePlayers) + 1)
    ELSE new

restartGame(w) ==
    [w EXCEPT !.grid = createGrid, !.currentPlayer = activePlayers[1],
              !.movesMade = 0, !.gameActive = TRUE, !.winner = 0,
              !.explosionQueue = <<>>, !.isAnimating = FALSE]

(***************************************************************************)
(* Specification of the application                                        *)
(***************************************************************************)
\* The matches the model starts: mode, roster, player types, own number
Setups ==
    { [mode |-> "local", ap |-> <<1, 2>>, me |-> 0,
       cfg |-> <<"human", "ai", "off", "off">>],
      [mode |-> "local", ap |-> <<1, 2, 3>>, me |-> 0,
       cfg |-> <<"ai", "human", "human", "off">>],
      [mode |-> "online-game", ap |-> <<1, 2>>, me |-> 1,
       cfg |-> <<"human", "network">>],
      [mode |-> "online-game", ap |-> <<1, 2, 3>>, me |-> 1,
       cfg |-> <<"human", "network", "network">>] }

\* The placements the model follows a match for
OrbBound == IF gameMode = "online-game" THEN MaxOnlineOrbs ELSE MaxOrbs

Settled(g) == \A i \in Cells : g[i].orbs <= capacity(rowOf(i), colOf(i))

NoOp == [op |-> "start", r |-> 0, c |-> 0, player |-> 0, placed |-> FALSE]

Init ==
    \E s \in Setups :
        /\ activePlayers = s.ap
        /\ playerConfigs = s.cfg
        /\ gameMode = s.mode
        /\ myPlayerNumber = s.me
        /\ grid = createGrid
        /\ currentPlayer = s.ap[1]
        /\ movesMade = 0
        /\ gameActive = TRUE
        /\ winner = 0
        /\ isAnimating = FALSE
        /\ explosionQueue = <<>>
        /\ explosionCount = 0
        /\ lastExecutedMove = <<>>
        /\ nostr = [movesMade |-> 0, currentPlayerIndex |-> 0, winner |-> 0,
                    phase |-> IF s.mode = "online-game" THEN "playing" ELSE "idle",
                    processedEvents |-> {}]
        /\ relayEvents = <<>>
        /\ aiTimer = (s.cfg[s.ap[1]] = "ai")
        /\ cleanTurn = TRUE
        /\ mover = 0
        /\ legalPlay = TRUE
        /\ replica = gameStateOf(World)
        /\ last = NoOp

\* The interval ticks until the running cascade has ended
RECURSIVE settle(_, _)
settle(w, fuel) ==
    IF ~w.isAnimating \/ fuel = 0 THEN w
    ELSE settle(processExplosion(w), fuel - 1)

\* A second copy of the match applies the placement to its gameState with
\* executeRemoteMove and runs the cascade to its end
applyPlacement(gs, r, c, player) ==
    LET w == [World EXCEPT !.grid = gs[1], !.currentPlayer = gs[2],
                           !.movesMade = gs[3], !.gameActive = gs[4],
                           !.winner = gs[5], !.isAnimating = FALSE,
                           !.explosionQueue = <<>>, !.explosionCount = 0]
    IN  gameStateOf(settle(executeRemoteMove(w, r, c, player),
                           MAX_EXPLOSIONS_PER_TURN + 2))

\* The handler's result is rendered and becomes the next state
Commit(w2, op, r, c, player) ==
    LET w3 == render(World, w2)
        placed == /\ w2.grid # grid
                  /\ op \in {"executeMove", "executeRemoteMove", "relayDelivery",
                            "lateMoveEvent"}
    IN  /\ grid' = w3.grid
        /\ currentPlayer' = w3.currentPlayer
        /\ movesMade' = w3.movesMade
        /\ gameActive' = w3.gameActive
        /\ winner' = w3.winner
        /\ isAnimating' = w3.isAnimating
        /\ explosionQueue' = w3.explosionQueue
        /\ explosionCount' = w3.explosionCount
        /\ lastExecutedMove' = w3.lastExecutedMove
        /\ nostr' = [w3.nostr EXCEPT !.processedEvents =
                         @ \cap {eventKey(e) : e \in Range(w3.relayEvents)}]
        /\ relayEvents' = w3.relayEvents
        /\ aiTimer' = w3.aiTimer
        /\ cleanTurn' = IF placed
                        THEN /\ Settled(grid) /\ ~isAnimating
                             /\ explosionQueue = <<>> /\ explosionCount = 0
                             /\ validateMove(grid, r, c, player)
                        ELSE cleanTurn
        /\ mover' = IF placed THEN player ELSE mover
        /\ legalPlay' = IF op = "restartGame" THEN TRUE
                        ELSE IF placed
                        THEN /\ legalPlay /\ validateMove(grid, r, c, player)
                             /\ ~isAnimating /\ explosionQueue = <<>>
                        ELSE legalPlay
        /\ replica' = IF op = "restartGame" THEN gameStateOf(w3)
                      ELSE IF placed /\ gameMode = "online-game"
                      THEN applyPlacement(replica, r, c, player)
                      ELSE replica
        /\ last' = [op |-> op, r |-> r, c |-> c, player |-> player, placed |-> placed]
        /\ UNCHANGED <<activePlayers, playerConfigs, gameMode, myPlayerNumber>>

\* A click, a touch or the gamepad button on cell (r, c)
handleCanvasClick(r, c) ==
    /\ gameActive /\ ~isAnimating /\ winner = 0
    /\ configType(currentPlayer) = "human"
    /\ gameMode = "online-game" => myPlayerNumber = currentPlayer
    /\ TotalOrbs(grid) < OrbBound
    /\ gameMode = "online-game" => now(relayEvents) <= MaxOnlineOrbs
    /\ Commit(executeMove(World, r, c, currentPlayer), "executeMove", r, c, currentPlayer)

\* The timeout of the AI-turn effect fires
aiTimeout ==
    /\ aiTimer
    /\ TotalOrbs(grid) < OrbBound
    /\ \E move \in aiFindBestMove(grid, currentPlayer) :
          Commit(executeMove([World EXCEPT !.aiTimer = FALSE],
                             rowOf(move), colOf(move), currentPlayer),
                 "executeMove", rowOf(move), colOf(move), currentPlayer)

\* The state a participant in step with this replica has on its screen: the
\* running cascade resolved and the turn ended.
peerView == aiTurnEffect(settle(World, MAX_EXPLOSIONS_PER_TURN + 2),
                         Len(activePlayers) + 1)

\* A move event of another participant arrives from a relay.  The sender ran
\* handleCanvasClick and NostrMultiplayer.makeMove on its own copy of the match,
\* which has the moves this replica has, all cascades resolved.
nostrMoveEvent(r, c) ==
    /\ gameMode = "online-game"
    /\ TotalOrbs(grid) < OrbBound
    /\ now(relayEvents) <= MaxOnlineOrbs
    /\ LET pv == peerView
           player == pv.currentPlayer
           moveNumber == pv.nostr.movesMade + 1
       IN  /\ pv.gameActive /\ pv.winner = 0
           /\ player # myPlayerNumber
           /\ validateMove(pv.grid, r, c, player)
           /\ LET e == [sender |-> player, r |-> r, c |-> c, player |-> player,
                        moveNumber |-> moveNumber,
                        timestamp |-> now(relayEvents)]
              IN  Commit(processEvent([World EXCEPT !.relayEvents = publish(@, e)],
                                      e),
                         "executeRemoteMove", r, c, player)

\* A move event arrives after this replica has set the winner: its sender
\* published it before the end of the match reached it, with the move number
\* that follows the moves both have counted.
lateMoveEvent(r, c, player) ==
    /\ gameMode = "online-game"
    /\ winner # 0
    /\ now(relayEvents) <= MaxOnlineOrbs
    /\ player \in Range(activePlayers) /\ player # myPlayerNumber
    /\ LET e == [sender |-> player, r |-> r, c |-> c, player |-> player,
                 moveNumber |-> nostr.movesMade + 1,
                 timestamp |-> now(relayEvents)]
       IN  Commit(processEvent([World EXCEPT !.relayEvents = publish(@, e)], e),
                  "lateMoveEvent", r, c, player)

\* A relay delivers a move event again: the echo of this participant's own
\* move, the same event from a second relay, or the stored events replayed
\* when a subscription is re-established after a reconnect.
relayDelivery(i) ==
    /\ gameMode = "online-game"
    /\ i \in 1..Len(relayEvents)
    /\ LET e == relayEvents[i]
       IN  Commit(processEvent(World, e), "relayDelivery", e.r, e.c, e.player)

\* A tick of the interval that runs while isAnimating
processExplosionTick ==
    /\ isAnimating
    /\ LET op == IF explosionCount >= MAX_EXPLOSIONS_PER_TURN THEN "maxExplosions"
                 ELSE IF Len(explosionQueue) = 0 THEN "endOfChain"
                 ELSE IF processExplosion(World).grid = grid THEN "staleEntry"
                 ELSE "explosion"
           rc == IF op \in {"explosion", "staleEntry"} THEN Head(explosionQueue)
                 ELSE <<0, 0>>
           who == IF op = "explosion" THEN grid[getCell(grid, rc[1], rc[2])].owner
                  ELSE 0
       IN  Commit(processExplosion(World), op, rc[1], rc[2], who)

\* The "Play Again" button, shown in a local match once a winner is set
restartClick ==
    /\ winner # 0 /\ gameMode # "online-game"
    /\ Commit(restartGame(World), "restartGame", 0, 0, 0)

Next ==
    \/ \E rc \in Coords : handleCanvasClick(rc[1], rc[2])
    \/ aiTimeout
    \/ \E rc \in Coords : nostrMoveEvent(rc[1], rc[2])
    \/ \E i \in 1..MaxRelayEvents : relayDelivery(i)
    \/ \E rc \in Coords, player \in Players : lateMoveEvent(rc[1], rc[2], player)
    \/ processExplosionTick
    \/ restartClick

Spec == Init /\ [][Next]_vars

(***************************************************************************)
(* Specification of the engine's pure functions.  The grid is built as the *)
(* engine's tests build it: createGrid(), then writes to the owner and the *)
(* orbs of single cells; each function is then applied to every input of a *)
(* bounded set and its results are kept in last.result.                    *)
(***************************************************************************)
Rosters == {<<1, 2>>, <<1, 3>>, <<2, 3>>, <<1, 2, 3>>}

TestCoords == ((0 - 1)..GRID_ROWS) \X ((0 - 1)..GRID_COLS)

ValidateInputs == TestCoords \X Players

WinnerInputs == {<<ap, m>> \in Rosters \X (0..4) : m <= Len(ap) + 1}

NextInputs == {<<cur, ap, m>> \in Players \X Rosters \X (0..4) :
                  cur \in Range(ap) /\ m <= Len(ap) + 1}

InitEngine ==
    /\ grid = createGrid
    /\ last = [op |-> "createGrid", base |-> 0]
    /\ activePlayers = <<1, 2>>
    /\ playerConfigs = <<"human", "human", "off", "off">>
    /\ gameMode = "local"
    /\ myPlayerNumber = 0
    /\ currentPlayer = 1
    /\ movesMade = 0
    /\ gameActive = FALSE
    /\ winner = 0
    /\ isAnimating = FALSE
    /\ explosionQueue = <<>>
    /\ explosionCount = 0
    /\ lastExecutedMove = <<>>
    /\ nostr = [movesMade |-> 0, currentPlayerIndex |-> 0, winner |-> 0,
                phase |-> "idle", processedEvents |-> {}]
    /\ relayEvents = <<>>
    /\ aiTimer = FALSE
    /\ cleanTurn = TRUE
    /\ mover = 0
    /\ legalPlay = TRUE
    /\ replica = gameStateOf(World)

\* The owners the tests fill the grid with
FillOwners == {2}

\* The grid a test starts from: createGrid(), or every cell given to one owner
baseGrid(b) ==
    IF b = 0 THEN createGrid ELSE [i \in Cells |-> [orbs |-> 1, owner |-> b]]

Building == last.op \in {"createGrid", "fillGrid", "setCell"}

\* for (const cell of grid) { cell.owner = owner; cell.orbs = 1; }
fillGrid(owner) ==
    /\ last.op = "createGrid"
    /\ grid' = baseGrid(owner)
    /\ last' = [op |-> "fillGrid", base |-> owner]
    /\ UNCHANGED appVars /\ UNCHANGED <<cleanTurn, mover, legalPlay, replica>>

\* getCell(grid, r, c)!.owner = owner; getCell(grid, r, c)!.orbs = orbs.  A test
\* writes to at most maxEdits cells, in row-major order, before it calls.
writeCell(i, owner, orbs, maxEdits) ==
    /\ Building
    /\ \A j \in Cells : grid[j] # baseGrid(last.base)[j] => j < i
    /\ Cardinality({j \in Cells : grid[j] # baseGrid(last.base)[j]}) < maxEdits
    /\ grid' = [grid EXCEPT ![i] = [orbs |-> orbs, owner |-> owner]]
    /\ last' = [op |-> "setCell", base |-> last.base]
    /\ UNCHANGED appVars /\ UNCHANGED <<cleanTurn, mover, legalPlay, replica>>

setCell(i, owner, orbs) == writeCell(i, owner, orbs, MaxEdits)

setCellAi(i, owner, orbs) == writeCell(i, owner, orbs, MaxAiEdits)

callValidateMove ==
    /\ Building
    /\ last' = [op |-> "validateMove",
                result |-> [x \in ValidateInputs |->
                               validateMove(grid, x[1][1], x[1][2], x[2])]]
    /\ UNCHANGED <<grid, cleanTurn, mover, legalPlay, replica>> /\ UNCHANGED appVars

callCheckWinner ==
    /\ Building
    /\ last' = [op |-> "checkWinner",
                result |-> [x \in WinnerInputs |-> checkWinner(grid, x[1], x[2])]]
    /\ UNCHANGED <<grid, cleanTurn, mover, legalPlay, replica>> /\ UNCHANGED appVars

callGetNextPlayer ==
    /\ Building
    /\ last' = [op |-> "getNextPlayer",
                result |-> [x \in NextInputs |->
                               getNextPlayer(x[1], x[2], grid, x[3])]]
    /\ UNCHANGED <<grid, cleanTurn, mover, legalPlay, replica>> /\ UNCHANGED appVars

\* The grid sizes createCell is applied to: the source's and the model's
GridSizes == {<<SourceRows, SourceCols>>, <<GRID_ROWS, GRID_COLS>>}

\* createCell(r, c) for every coordinate of a grid, and getNeighborCoords(r, c)
callCreateCell ==
    /\ last.op = "createGrid"
    /\ \E size \in GridSizes :
          last' = [op |-> "createCell", rows |-> size[1], cols |-> size[2],
                   result |->
                     [rc \in (0..(size[1] - 1)) \X (0..(size[2] - 1)) |->
                        [capacity |-> capacityAt(size[1], size[2], rc[1], rc[2]),
                         neighborCount |->
                             neighborCountAt(size[1], size[2], rc[1], rc[2]),
                         type |-> cellTypeAt(size[1], size[2], rc[1], rc[2]),
                         neighbors |->
                             getNeighborCoordsAt(size[1], size[2], rc[1], rc[2])]]]
    /\ UNCHANGED <<grid, cleanTurn, mover, legalPlay, replica>> /\ UNCHANGED appVars

callGetAlivePlayers ==
    /\ Building
    /\ last' = [op |-> "getAlivePlayers",
                result |-> [ap \in Rosters |-> getAlivePlayers(grid, ap)]]
    /\ UNCHANGED <<grid, cleanTurn, mover, legalPlay, replica>> /\ UNCHANGED appVars

\* aiScoreMove is applied to one of its inputs; the scores of all are kept
callAiScoreMove ==
    /\ Building
    /\ LET scores == [x \in Cells \X Players |-> aiScoreMove(grid, x[1], x[2])]
       IN  /\ \E cell \in Cells, player \in Players :
                 grid' = aiScoreMoveGrid(grid, cell, player)
           \* score += Math.random() * 3, in units of 1 / RandomSteps
           /\ \E k \in 0..(RandomSteps - 1) :
                 last' = [op |-> "aiScoreMove", before |-> grid,
                          result |-> scores, jitter |-> k * 3]
    /\ UNCHANGED <<cleanTurn, mover, legalPlay, replica>> /\ UNCHANGED appVars

\* aiFindBestMove is applied for one of the players; the results for all are
\* kept, each the set of cells the call can return
callAiFindBestMove ==
    /\ Building
    /\ LET moves == [player \in Players |-> aiFindBestMove(grid, player)]
       IN  /\ \E player \in Players : grid' = aiFindBestMoveGrid(grid, player)
           /\ last' = [op |-> "aiFindBestMove", before |-> grid, result |-> moves]
    /\ UNCHANGED <<cleanTurn, mover, legalPlay, replica>> /\ UNCHANGED appVars

NextEngine ==
    \/ \E i \in Cells, owner \in {0} \cup Players :
          \E orbs \in 0..(capacity(rowOf(i), colOf(i)) + 1) : setCell(i, owner, orbs)
    \/ callValidateMove
    \/ callCheckWinner
    \/ callGetNextPlayer
    \/ callGetAlivePlayers
    \/ callCreateCell

SpecEngine == InitEngine /\ [][NextEngine]_vars

(***************************************************************************)
(* Specification of the move selection.  The grid is built as its tests    *)
(* build it: createGrid(), possibly every cell given to one owner, then    *)
(* writes to single cells.                                                 *)
(***************************************************************************)
NextAi ==
    \/ \E owner \in FillOwners : fillGrid(owner)
    \/ \E i \in Cells, owner \in {0} \cup Players :
          \E orbs \in 0..(capacity(rowOf(i), colOf(i)) + 1) : setCellAi(i, owner, orbs)
    \/ callAiScoreMove
    \/ callAiFindBestMove

SpecAi == InitEngine /\ [][NextAi]_vars

(***************************************************************************)
(* The resolver of the engine's tests and its specification: a grid is     *)
(* played on with the tests' makeMove, any competitor placing on any cell  *)
(* validateMove accepts; the application's executeMove and cascade are     *)
(* applied to the same grid and placement and their outcome is kept.       *)
(***************************************************************************)
\* const maxIterations = 10000
maxIterations == 10000

\* The explosion of one cell with the owner of the neighbours left as it was
explodeCellKeepsOwner(g, i) ==
    LET orbs1 == g[i].orbs - (capacity(rowOf(i), colOf(i)) + 1)
        g1 == [g EXCEPT ![i] = IF orbs1 <= 0 THEN [orbs |-> 0, owner |-> 0]
                                ELSE [orbs |-> orbs1, owner |-> @.owner]]
        neighbors == getNeighborCoords(rowOf(i), colOf(i))
        RECURSIVE add(_)
        add(k) == IF k = 0 THEN g1
                  ELSE [add(k - 1) EXCEPT
                           ![getCell(g, neighbors[k][1], neighbors[k][2])] =
                               [orbs |-> @.orbs + 1, owner |-> @.owner]]
    IN  add(Len(neighbors))

\* The explosion of one cell in processAllExplosions
explodeCell(g, i) ==
    LET owner == g[i].owner
        orbs1 == g[i].orbs - (capacity(rowOf(i), colOf(i)) + 1)
        g1 == [g EXCEPT ![i] = IF orbs1 <= 0 THEN [orbs |-> 0, owner |-> 0]
                                ELSE [orbs |-> orbs1, owner |-> @.owner]]
        neighbors == getNeighborCoords(rowOf(i), colOf(i))
        RECURSIVE add(_)
        add(k) == IF k = 0 THEN g1
                  ELSE [add(k - 1) EXCEPT
                           ![getCell(g, neighbors[k][1], neighbors[k][2])] =
                               [orbs |-> @.orbs + 1, owner |-> owner]]
    IN  add(Len(neighbors))

\* stateKey: the orbs of the cells that hold orbs
stateKey(g) == [i \in Cells |-> g[i].orbs]

\* processAllExplosions: the grid it leaves, the iterations it returns, the
\* cells it exploded and whether it stopped on a repeated state
RECURSIVE resolveLoop(_, _, _, _)
resolveLoop(g, seenStates, iterations, explosions) ==
    IF iterations >= maxIterations
    THEN [grid |-> g, iterations |-> iterations, explosions |-> explosions,
          stopped |-> "maxIterations"]
    ELSE IF stateKey(g) \in seenStates
    THEN [grid |-> g, iterations |-> iterations, explosions |-> explosions,
          stopped |-> "oscillation"]
    ELSE LET unstable == {i \in Cells : g[i].orbs > capacity(rowOf(i), colOf(i))}
         IN  IF unstable = {}
             THEN [grid |-> g, iterations |-> iterations + 1,
                   explosions |-> explosions, stopped |-> "settled"]
             ELSE LET first == CHOOSE i \in unstable : \A j \in unstable : i <= j
                  IN  resolveLoop(explodeCell(g, first),
                                  seenStates \cup {stateKey(g)},
                                  iterations + 1, explosions + 1)

processAllExplosions(g) == resolveLoop(g, {}, 0, 0)

\* makeMove of the tests: the placement, then processAllExplosions
testMakeMove(g, r, c, player) ==
    LET cell == getCell(g, r, c)
    IN  IF cell = NULL THEN [grid |-> g, ok |-> FALSE]
        ELSE IF g[cell].owner # 0 /\ g[cell].owner # player
        THEN [grid |-> g, ok |-> FALSE]
        ELSE [grid |-> processAllExplosions(placeOrb(g, cell, player)).grid,
              ok |-> TRUE]

\* The application on the same grid: executeMove, then the cascade
appMove(g, r, c, player) ==
    LET w == [World EXCEPT !.grid = g, !.currentPlayer = player,
                           !.gameActive = TRUE, !.winner = 0]
        placed == executeMove(w, r, c, player)
    IN  [placed |-> placed,
         ended |-> settle(placed, MAX_EXPLOSIONS_PER_TURN + 2)]

callTestMakeMove(r, c, player) ==
    /\ last.op \in {"createGrid", "makeMove"}
    /\ TotalOrbs(grid) < MaxTestOrbs
    /\ validateMove(grid, r, c, player)
    /\ grid' = testMakeMove(grid, r, c, player).grid
    /\ last' = [op |-> "makeMove", before |-> grid, r |-> r, c |-> c,
                player |-> player, app |-> appMove(grid, r, c, player)]
    /\ UNCHANGED appVars /\ UNCHANGED <<cleanTurn, mover, legalPlay, replica>>

callProcessAllExplosions ==
    /\ last.op \in {"createGrid", "makeMove"}
    /\ LET res == processAllExplosions(grid)
       IN  /\ grid' = res.grid
           /\ last' = [op |-> "processAllExplosions", before |-> grid,
                       iterations |-> res.iterations,
                       explosions |-> res.explosions, stopped |-> res.stopped]
    /\ UNCHANGED appVars /\ UNCHANGED <<cleanTurn, mover, legalPlay, replica>>

NextResolver ==
    \/ \E rc \in Coords, player \in Players : callTestMakeMove(rc[1], rc[2], player)
    \/ callProcessAllExplosions

SpecResolver == InitEngine /\ [][NextResolver]_vars

(***************************************************************************)
(* The player list of NostrMultiplayer and its specification.  In          *)
(* SpecLobby the variable nostr holds the fields of the object the lobby   *)
(* works on: players, hostId, phase, currentPlayerIndex, movesMade,        *)
(* winner, playerName, whether subscribeToGame has run, and whether        *)
(* joinGame waits for the history.  An id                                  *)
(* is a number, 0 for the empty string; a name is a base spelling and      *)
(* whether it is written in upper case.  joinTime (Date.now()) is read     *)
(* nowhere and left out.  Every delivery is of an event whose key is not   *)
(* in processedEvents; a duplicate changes nothing.                        *)
(***************************************************************************)
Ids == 1..MaxIds

\* this.identity.pubkey
pubkey == 1

NoId == 0

lowerName(b) == [base |-> b, upper |-> FALSE]

upperName(b) == [base |-> b, upper |-> TRUE]

NoName == lowerName(0)

\* String.prototype.toLowerCase
toLowerCase(name) == [name EXCEPT !.upper = FALSE]

\* The join events of the clients: each under its own name, client 2 also
\* under the name of client 1 in upper case, client 1 also under the name of
\* client 2
JoinData ==
    { [id |-> i, name |-> lowerName(i)] : i \in Ids }
        \cup { [id |-> 2, name |-> upperName(1)], [id |-> 1, name |-> lowerName(2)] }

LeaveData == { [id |-> i] : i \in Ids }

NoRepeat(s) == \A i, j \in DOMAIN s : i # j => s[i] # s[j]

\* The start events: playerOrder is the id list of the host that started, or
\* absent
StartData ==
    { [hasOrder |-> TRUE, playerOrder |-> s] :
        s \in { t \in UNION { [1..n -> 1..MaxOrderIds] : n \in 2..MaxOrderIds } :
                  NoRepeat(t) } }
        \cup { [hasOrder |-> FALSE, playerOrder |-> <<>>] }

findPlayer(players, id) ==
    IF \E i \in 1..Len(players) : players[i].id = id
    THEN CHOOSE i \in 1..Len(players) :
             players[i].id = id /\ \A j \in 1..(i - 1) : players[j].id # id
    ELSE 0

\* handleJoin with the names compared as they are written
handleJoinExactNames(nm, data) ==
    IF \E i \in 1..Len(nm.players) :
           nm.players[i].id = data.id \/ nm.players[i].name = data.name
    THEN nm
    ELSE IF Len(nm.players) >= MaxPlayers
    THEN nm
    ELSE LET pl == Append(nm.players,
                     [id |-> data.id, name |-> data.name,
                      playerNumber |-> Len(nm.players) + 1])
         IN  [nm EXCEPT !.players = pl, !.hostId = pl[1].id]

handleJoin(nm, data) ==
    IF \E i \in 1..Len(nm.players) :
           nm.players[i].id = data.id
               \/ toLowerCase(nm.players[i].name) = toLowerCase(data.name)
    THEN nm
    ELSE IF Len(nm.players) >= MaxPlayers
    THEN nm
    ELSE LET pl == Append(nm.players,
                     [id |-> data.id, name |-> data.name,
                      playerNumber |-> Len(nm.players) + 1])
         IN  [nm EXCEPT !.players = pl, !.hostId = pl[1].id]

renumber(players) ==
    [i \in 1..Len(players) |-> [players[i] EXCEPT !.playerNumber = i]]

splice(players, idx) ==
    [i \in 1..(Len(players) - 1) |-> IF i < idx THEN players[i] ELSE players[i + 1]]

handleLeave(nm, data) ==
    LET idx == findPlayer(nm.players, data.id)
    IN  IF idx = 0 THEN nm
        ELSE LET pl == renumber(splice(nm.players, idx))
             IN  [nm EXCEPT !.players = pl,
                            !.hostId = IF data.id = nm.hostId /\ Len(pl) > 0
                                       THEN pl[1].id ELSE @]

\* data.playerOrder.forEach((id, idx) => ...): the players found, in the order
\* of playerOrder, each numbered by the position of its id in playerOrder
RECURSIVE orderPlayers(_, _, _)
orderPlayers(players, playerOrder, idx) ==
    IF idx > Len(playerOrder) THEN <<>>
    ELSE LET i == findPlayer(players, playerOrder[idx])
         IN  IF i = 0 THEN orderPlayers(players, playerOrder, idx + 1)
             ELSE <<[players[i] EXCEPT !.playerNumber = idx]>>
                      \o orderPlayers(players, playerOrder, idx + 1)

handleStart(nm, data) ==
    IF nm.phase = "playing" THEN nm
    ELSE [nm EXCEPT !.phase = "playing",
                    !.currentPlayerIndex = 0,
                    !.movesMade = 0,
                    !.winner = 0,
                    !.players = IF data.hasOrder
                                THEN orderPlayers(nm.players, data.playerOrder, 1)
                                ELSE @]

\* processEvent for the events of the lobby
processLobbyEvent(nm, type, data) ==
    CASE type = "join" -> handleJoin(nm, data)
      [] type = "leave" -> handleLeave(nm, data)
      [] type = "start" -> handleStart(nm, data)

createGame(nm, playerName) ==
    [nm EXCEPT !.playerName = toLowerCase(playerName),
               !.hostId = pubkey,
               !.phase = "lobby",
               !.players = <<[id |-> pubkey, name |-> toLowerCase(playerName),
                              playerNumber |-> 1]>>,
               !.currentPlayerIndex = 0,
               !.movesMade = 0,
               !.winner = 0,
               !.subscribed = TRUE]

\* joinGame up to its wait for the history
joinGameSubscribe(nm, playerName) ==
    [nm EXCEPT !.playerName = toLowerCase(playerName),
               !.phase = "lobby",
               !.players = <<>>,
               !.subscribed = TRUE,
               !.joining = TRUE]

\* joinGame after the wait; its own join event comes back from the relays
joinGameAfterWait(nm) ==
    [nm EXCEPT !.hostId = IF Len(nm.players) = 0 \/ nm.players[1].id = pubkey
                          THEN pubkey ELSE nm.players[1].id,
               !.joining = FALSE]

isHost(nm) == pubkey = nm.hostId

\* The orders the shuffle of startGame can produce
Shuffles(n) == { f \in [1..n -> 1..n] : NoRepeat(f) }

\* The outcome of startGame: the object, the value returned and the start
\* event published (its playerOrder, or none)
started(nm, f) ==
    LET pl == renumber([i \in 1..Len(nm.players) |-> nm.players[f[i]]])
    IN  [nm |-> [nm EXCEPT !.players = pl,
                           !.phase = "playing",
                           !.currentPlayerIndex = 0],
         ok |-> TRUE,
         published |-> <<[i \in 1..Len(pl) |-> pl[i].id]>>]

\* startGame without the test of isHost
startGameAnyClient(nm, f) ==
    IF Len(nm.players) < 2 THEN [nm |-> nm, ok |-> FALSE, published |-> <<>>]
    ELSE started(nm, f)

startGame(nm, f) ==
    IF ~isHost(nm) THEN [nm |-> nm, ok |-> FALSE, published |-> <<>>]
    ELSE IF Len(nm.players) < 2 THEN [nm |-> nm, ok |-> FALSE, published |-> <<>>]
    ELSE started(nm, f)

reset(nm) ==
    [nm EXCEPT !.players = <<>>, !.phase = "idle", !.currentPlayerIndex = 0,
               !.hostId = NoId, !.movesMade = 0, !.winner = 0]

leaveGame(nm) == reset(nm)

lobbyRest == <<grid, currentPlayer, movesMade, gameActive, winner, activePlayers,
               playerConfigs, gameMode, myPlayerNumber, isAnimating,
               explosionQueue, explosionCount, lastExecutedMove, relayEvents,
               aiTimer, cleanTurn, mover, legalPlay, replica>>

InitLobby ==
    /\ grid = createGrid
    /\ last = [op |-> "new"]
    /\ activePlayers = <<1, 2>>
    /\ playerConfigs = <<"human", "human", "off", "off">>
    /\ gameMode = "local"
    /\ myPlayerNumber = 0
    /\ currentPlayer = 1
    /\ movesMade = 0
    /\ gameActive = FALSE
    /\ winner = 0
    /\ isAnimating = FALSE
    /\ explosionQueue = <<>>
    /\ explosionCount = 0
    /\ lastExecutedMove = <<>>
    /\ nostr = [players |-> <<>>, hostId |-> NoId, phase |-> "idle",
                currentPlayerIndex |-> 0, movesMade |-> 0, winner |-> 0,
                playerName |-> NoName, subscribed |-> FALSE,
                joining |-> FALSE]
    /\ relayEvents = <<>>
    /\ aiTimer = FALSE
    /\ cleanTurn = TRUE
    /\ mover = 0
    /\ legalPlay = TRUE
    /\ replica = gameStateOf(World)

\* The relays deliver a join, leave or start event of the game code to the
\* callback of subscribeToGame
deliverJoin(data) ==
    /\ nostr.subscribed
    /\ nostr' = processLobbyEvent(nostr, "join", data)
    /\ last' = [op |-> "join", data |-> data]
    /\ UNCHANGED lobbyRest

deliverLeave(data) ==
    /\ nostr.subscribed
    /\ nostr' = processLobbyEvent(nostr, "leave", data)
    /\ last' = [op |-> "leave"]
    /\ UNCHANGED lobbyRest

deliverStart(data) ==
    /\ nostr.subscribed
    /\ nostr' = processLobbyEvent(nostr, "start", data)
    /\ last' = [op |-> "start"]
    /\ UNCHANGED lobbyRest

callCreateGame(playerName) ==
    /\ nostr' = createGame(nostr, playerName)
    /\ last' = [op |-> "createGame"]
    /\ UNCHANGED lobbyRest

callJoinGame(playerName) ==
    /\ ~nostr.joining
    /\ nostr' = joinGameSubscribe(nostr, playerName)
    /\ last' = [op |-> "joinGame"]
    /\ UNCHANGED lobbyRest

joinGameResumes ==
    /\ nostr.joining
    /\ nostr' = joinGameAfterWait(nostr)
    /\ last' = [op |-> "joinGameAfterWait"]
    /\ UNCHANGED lobbyRest

callStartGame ==
    /\ \E f \in Shuffles(Len(nostr.players)) :
           LET res == startGame(nostr, f)
           IN  /\ nostr' = res.nm
               /\ last' = [op |-> "startGame", ok |-> res.ok,
                           published |-> res.published]
    /\ UNCHANGED lobbyRest

callLeaveGame ==
    /\ nostr' = leaveGame(nostr)
    /\ last' = [op |-> "leaveGame"]
    /\ UNCHANGED lobbyRest

\* The application ends the online match it plays: nostrMultiplayer.setWinner,
\* here with the number of the player whose turn it is
callSetWinner(playerNumber) ==
    /\ nostr.phase = "playing"
    /\ nostr' = setWinner(nostr, playerNumber)
    /\ last' = [op |-> "setWinner"]
    /\ UNCHANGED lobbyRest

NextLobby ==
    \/ \E data \in JoinData : deliverJoin(data)
    \/ \E data \in LeaveData : deliverLeave(data)
    \/ \E data \in StartData : deliverStart(data)
    \/ callCreateGame(upperName(1))
    \/ callJoinGame(upperName(1))
    \/ joinGameResumes
    \/ callStartGame
    \/ callLeaveGame
    \/ callSetWinner(nostr.currentPlayerIndex + 1)

SpecLobby == InitLobby /\ [][NextLobby]_vars

(***************************************************************************)
(* Properties                                                              *)
(***************************************************************************)
InBounds(r, c) == r \in 0..(GRID_ROWS - 1) /\ c \in 0..(GRID_COLS - 1)

\* The cells orthogonally adjacent to cell i
Adjacent(i) ==
    {j \in Cells :
        \/ rowOf(i) = rowOf(j) /\ (colOf(i) - colOf(j)) \in {0 - 1, 1}
        \/ colOf(i) = colOf(j) /\ (rowOf(i) - rowOf(j)) \in {0 - 1, 1}}

\* The roster members that own a cell with orbs
AliveSet(g, ap) ==
    {p \in Range(ap) : \E i \in Cells : g[i].orbs > 0 /\ g[i].owner = p}

\* w owns every cell that has orbs, and there is one
OwnsAll(g, w) ==
    /\ \E i \in Cells : g[i].orbs > 0
    /\ \A i \in Cells : g[i].orbs > 0 => g[i].owner = w

\* C1: a placement by competitor p on a cell owned by another competitor is
\* rejected and leaves the grid and the turn state unchanged, on the local
\* path (executeMove) and on the remote path (executeRemoteMove).
C1_OpponentCellRejected ==
    [][ ( /\ last'.op \in {"executeMove", "executeRemoteMove"}
          /\ grid[getCell(grid, last'.r, last'.c)].owner \notin {0, last'.player} )
        => UNCHANGED gameVars ]_vars

\* C2: validateMove(grid, r, c, p) is true if and only if (r, c) is inside the
\* grid and the cell there is unclaimed or owned by p.
C2_ValidateMoveIff ==
    last.op = "validateMove" =>
        \A x \in ValidateInputs :
            LET r == x[1][1]
                c == x[1][2]
            IN  last.result[x] <=>
                    ( /\ InBounds(r, c)
                      /\ grid[r * GRID_COLS + c].owner \in {0, x[2]} )

\* validateMove was applied to a grid with a cell owned by a competitor
C2_Witness ==
    /\ last.op = "validateMove"
    /\ \E x \in ValidateInputs :
          /\ InBounds(x[1][1], x[1][2])
          /\ grid[x[1][1] * GRID_COLS + x[1][2]].owner \notin {0, x[2]}
          /\ ~last.result[x]
    /\ \E x \in ValidateInputs :
          /\ InBounds(x[1][1], x[1][2])
          /\ grid[x[1][1] * GRID_COLS + x[1][2]].owner = x[2]
          /\ last.result[x]

\* C3: an explosion step conserves the orbs of the grid: the exploding cell
\* loses capacity + 1 orbs, each of its capacity + 1 neighbours gains one orb
\* and no other cell changes its number of orbs.
C3_ExplosionConserves ==
    [][ last'.op = "explosion" =>
          LET cell == last'.r * GRID_COLS + last'.c
              cap == capacity(last'.r, last'.c)
          IN  /\ grid'[cell].orbs = grid[cell].orbs - (cap + 1)
              /\ Cardinality(Adjacent(cell)) = cap + 1
              /\ \A j \in Adjacent(cell) : grid'[j].orbs = grid[j].orbs + 1
              /\ \A j \in Cells \ (Adjacent(cell) \cup {cell}) :
                    grid'[j].orbs = grid[j].orbs
              /\ TotalOrbs(grid') = TotalOrbs(grid) ]_vars

\* A cell that held more than capacity + 1 orbs has exploded
C3_Witness ==
    /\ last.op = "explosion"
    /\ grid[last.r * GRID_COLS + last.c].orbs > 0

\* C4 (as stated): a turn that begins with one legal placement on a settled
\* grid never reaches the safety bound of the cascade.
C4_BoundNeverReached == cleanTurn => last.op # "maxExplosions"

\* C4 (amended): a turn that begins with one legal placement on a settled grid
\* stops after at most MAX_EXPLOSIONS_PER_TURN queue steps; when it stops because
\* the queue is drained the grid is settled, otherwise the safety bound cut it.
C4_CascadeStops ==
    /\ explosionCount <= MAX_EXPLOSIONS_PER_TURN
    /\ (cleanTurn /\ last.op = "endOfChain") => Settled(grid)
    /\ (cleanTurn /\ ~isAnimating /\ ~Settled(grid)) => last.op = "maxExplosions"

\* A cascade of several explosions has drained its queue and ended the turn
C4_Witness ==
    /\ cleanTurn
    /\ last.op = "endOfChain"
    /\ Settled(grid)
    /\ \E i \in Cells : grid[i].orbs > 0 /\ grid[i].owner # last.player
    /\ Cardinality({i \in Cells : grid[i].orbs > 0}) >= 4

\* Some placement the handlers would accept and apply in this state
HumanCanAct ==
    /\ gameActive /\ ~isAnimating /\ winner = 0
    /\ configType(currentPlayer) = "human"
    /\ gameMode = "online-game" => myPlayerNumber = currentPlayer
    /\ \E rc \in Coords :
          executeMove(World, rc[1], rc[2], currentPlayer).grid # grid

AiCanAct ==
    /\ aiTimer
    /\ \E move \in aiFindBestMove(grid, currentPlayer) :
          executeMove(World, rowOf(move), colOf(move), currentPlayer).grid # grid

RemoteCanAct ==
    /\ gameMode = "online-game"
    /\ peerView.gameActive /\ peerView.winner = 0
    /\ peerView.currentPlayer # myPlayerNumber
    /\ \E rc \in Coords :
          /\ validateMove(peerView.grid, rc[1], rc[2], peerView.currentPlayer)
          /\ handleNostrEventMove(World, rc[1], rc[2], peerView.currentPlayer,
                                  peerView.nostr.movesMade + 1).grid # grid

C6_NoPlacementDuringCascade ==
    [][ last'.placed => (~isAnimating /\ explosionQueue = <<>>) ]_vars

C8_SoleOwnerWinsImmediately ==
    last.op = "checkWinner" =>
        \A x \in WinnerInputs :
            \A w \in Range(x[1]) : OwnsAll(grid, w) => last.result[x] = w

\* C9: in steady state, when exactly one competitor w owns all cells with
\* orbs, checkWinner returns w and getNextPlayer(w, ...) returns w.
C9_SoleSurvivor ==
    /\ last.op = "checkWinner" =>
          \A x \in WinnerInputs :
              \A w \in Range(x[1]) :
                  (x[2] >= Len(x[1]) /\ OwnsAll(grid, w)) => last.result[x] = w
    /\ last.op = "getNextPlayer" =>
          \A x \in NextInputs :
              (x[3] >= Len(x[2]) /\ OwnsAll(grid, x[1])) => last.result[x] = x[1]

\* getNextPlayer was applied in steady state for the sole survivor of a roster
\* of three
C9_Witness ==
    /\ last.op = "getNextPlayer"
    /\ \E x \in NextInputs :
          /\ x[3] >= Len(x[2]) /\ Len(x[2]) = 3
          /\ OwnsAll(grid, x[1])
          /\ last.result[x] = x[1]

\* C10: in steady state checkWinner returns the first roster entry when no
\* roster member owns a cell with orbs, and none when two or more do.
C10_NoneOrSeveralAlive ==
    last.op = "checkWinner" =>
        \A x \in WinnerInputs :
            x[2] >= Len(x[1]) =>
                /\ AliveSet(grid, x[1]) = {} => last.result[x] = x[1][1]
                /\ Cardinality(AliveSet(grid, x[1])) >= 2 => last.result[x] = 0

\* checkWinner was applied in steady state to a grid whose orbs all belong to a
\* competitor outside the roster
C10_Witness ==
    /\ last.op = "checkWinner"
    /\ \E x \in WinnerInputs :
          /\ x[2] >= Len(x[1])
          /\ AliveSet(grid, x[1]) = {}
          /\ \E i \in Cells : grid[i].orbs > 0
          /\ last.result[x] = x[1][1]

\* w owns a cell with orbs
Owns(g, w) == \E i \in Cells : g[i].orbs > 0 /\ g[i].owner = w

\* The latest step ended a turn: a placement without explosion, or the end of
\* a chain
TurnEnded ==
    \/ last.op = "endOfChain"
    \/ last.placed /\ ~isAnimating

\* C11: at every turn end some roster member is alive, so checkWinner is never
\* applied to a grid without alive roster members; and in a match in which
\* every applied placement is legal (accepted by validateMove, no cascade in
\* progress) the competitor who placed last owns a cell with orbs.
C11_ZeroAliveUnreachable ==
    TurnEnded =>
        /\ AliveSet(grid, activePlayers) # {}
        /\ legalPlay => Owns(grid, mover)

\* A cascade ended a turn and took every cell of the other competitors
C11_Witness ==
    /\ legalPlay
    /\ last.op = "endOfChain"
    /\ movesMade >= Len(activePlayers)
    /\ AliveSet(grid, activePlayers) = {mover}

\* The position of x in the roster ap, from 1
PosIn(ap, x) == CHOOSE i \in 1..Len(ap) : ap[i] = x

\* The roster entry d places after cur, wrapping around
After(ap, cur, d) == ap[((PosIn(ap, cur) - 1 + d) % Len(ap)) + 1]

\* The first alive roster entry after cur in roster order, wrapping around
NextAliveAfter(g, ap, cur) ==
    LET d == CHOOSE k \in 1..Len(ap) :
                 /\ Owns(g, After(ap, cur, k))
                 /\ \A j \in 1..(k - 1) : ~Owns(g, After(ap, cur, j))
    IN  After(ap, cur, d)

\* C12: during the first round (movesMade < roster length) getNextPlayer
\* returns the roster entry after the current one, wrapping around, whatever
\* the grid holds and whoever is alive.
C12_FirstRoundRoundRobin ==
    last.op = "getNextPlayer" =>
        \A x \in NextInputs :
            x[3] < Len(x[2]) => last.result[x] = After(x[2], x[1], 1)

\* getNextPlayer was applied in the first round of a roster of three and
\* returned a competitor without orbs while another competitor has orbs
C12_Witness ==
    /\ last.op = "getNextPlayer"
    /\ \E x \in NextInputs :
          /\ x[3] < Len(x[2]) /\ Len(x[2]) = 3
          /\ ~Owns(grid, last.result[x])
          /\ \E w \in Range(x[2]) : Owns(grid, w)
          /\ last.result[x] = After(x[2], x[1], 1)

\* C13: in steady state with at least two alive competitors getNextPlayer
\* returns the next alive competitor after the current one in roster order,
\* wrapping around and skipping the eliminated ones; the result is alive and
\* differs from the current competitor.
C13_SteadyStateNextAlive ==
    last.op = "getNextPlayer" =>
        \A x \in NextInputs :
            (x[3] >= Len(x[2]) /\ Cardinality(AliveSet(grid, x[2])) >= 2) =>
                /\ last.result[x] = NextAliveAfter(grid, x[2], x[1])
                /\ Owns(grid, last.result[x])
                /\ last.result[x] # x[1]

\* C14: getAlivePlayers returns exactly the roster members that own a cell with
\* orbs, in roster order; a competitor whose cells all hold zero orbs is not
\* alive.
C14_AlivePlayersExact ==
    last.op = "getAlivePlayers" =>
        \A ap \in Rosters :
            LET alive == last.result[ap]
            IN  /\ Range(alive) = {p \in Range(ap) : Owns(grid, p)}
                /\ \A i, j \in 1..Len(alive) :
                      i < j => PosIn(ap, alive[i]) < PosIn(ap, alive[j])

\* getAlivePlayers was applied to a grid where a roster member owns a cell
\* with zero orbs only, and another roster member is alive
C14_Witness ==
    /\ last.op = "getAlivePlayers"
    /\ \E ap \in Rosters, p \in Players :
          /\ p \in Range(ap)
          /\ \E i \in Cells : grid[i].owner = p /\ grid[i].orbs = 0
          /\ ~Owns(grid, p)
          /\ p \notin Range(last.result[ap])
          /\ Len(last.result[ap]) = 1

\* C15: movesMade counts the completed placements.  Every accepted placement
\* adds one orb and explosions conserve the orbs, so the orbs on the grid count
\* the placements applied since the match started: movesMade equals that number
\* when no cascade is running, and is one behind while the cascade of the
\* latest placement runs.
C15_MovesMadeCountsPlacements ==
    movesMade = TotalOrbs(grid) - (IF isAnimating THEN 1 ELSE 0)

\* C16: every placement applied to the grid, by a click, by the AI or by a
\* remote move event, is made by the competitor that currentPlayer names at
\* the moment it is applied.
C16_PlacementByCurrentPlayer ==
    [][last'.placed => last'.player = currentPlayer]_vars

\* C17: a move is applied once to the local copy of the match.  When a relay
\* delivers this participant's own move back, or delivers again a remote move
\* that was already delivered, the grid, the move count and the turn stay as
\* they were.
C17_MoveAppliedOnce ==
    [][last'.op = "relayDelivery" =>
           /\ ~last'.placed
           /\ grid' = grid /\ movesMade' = movesMade
           /\ currentPlayer' = currentPlayer]_vars

\* A remote move whose cascade still runs, so that its number is above
\* nostr.movesMade, is delivered again
C17_Witness ==
    /\ last.op = "relayDelivery" /\ last.player # myPlayerNumber
    /\ isAnimating
    /\ \E i \in 1..Len(relayEvents) :
          /\ relayEvents[i].sender = last.player
          /\ relayEvents[i].r = last.r /\ relayEvents[i].c = last.c
          /\ relayEvents[i].moveNumber > nostr.movesMade

\* C18: two copies of an online match that started with the same roster and a
\* fresh grid and applied the same placements in the same order hold the same
\* grid, currentPlayer, movesMade and winner whenever no cascade is running.
C18_ReplicasAgree ==
    (gameMode = "online-game" /\ ~isAnimating /\ explosionQueue = <<>>)
        => gameStateOf(World) = replica

\* The cells validateMove accepts for player p
LegalCells(g, p) == {i \in Cells : validateMove(g, rowOf(i), colOf(i), p)}

\* C19: aiFindBestMove(grid, p) returns null exactly when no cell is unclaimed
\* or owned by p; otherwise, whatever its random choices are, it returns a
\* cell that validateMove accepts for p; when one cell only is legal it
\* returns that cell.
C19_BestMoveIsLegal ==
    last.op = "aiFindBestMove" =>
        \A p \in Players :
            /\ (last.result[p] = {}) <=>
                   ~\E i \in Cells : last.before[i].owner \in {0, p}
            /\ last.result[p] \subseteq LegalCells(last.before, p)
            /\ Cardinality(LegalCells(last.before, p)) = 1
                   => last.result[p] = LegalCells(last.before, p)

\* One call on a full grid where player 1 has one legal cell, player 2 has
\* several and player 3 has none
C19_Witness ==
    /\ last.op = "aiFindBestMove"
    /\ Cardinality(LegalCells(last.before, 1)) = 1
    /\ last.result[1] = LegalCells(last.before, 1)
    /\ Cardinality(LegalCells(last.before, 2)) > 3
    /\ last.result[2] # {}
    /\ LegalCells(last.before, 3) = {} /\ last.result[3] = {}

C21_ZeroOrbsIsUnclaimed ==
    last.op = "validateMove" =>
        \A x \in ValidateInputs :
            (InBounds(x[1][1], x[1][2])
                /\ grid[x[1][1] * GRID_COLS + x[1][2]].orbs = 0)
            => last.result[x]

\* C22: resolving a grid that is already settled explodes no cell and leaves
\* every cell as it was; in the application a placement that does not push
\* its cell over capacity queues no explosion and starts no cascade.
C22_SettledGridResolvesToItself ==
    /\ (last.op = "processAllExplosions" /\ Settled(last.before))
           => (last.explosions = 0 /\ grid = last.before)
    /\ (last.op = "makeMove"
           /\ last.before[getCell(grid, last.r, last.c)].orbs + 1
                  <= capacity(last.r, last.c))
           => /\ last.app.placed.explosionQueue = <<>>
              /\ ~last.app.placed.isAnimating
              /\ last.app.placed.grid =
                     placeOrb(last.before, getCell(grid, last.r, last.c),
                              last.player)

\* The resolver was applied to a settled grid with orbs of two competitors
C22_Witness ==
    /\ last.op = "processAllExplosions"
    /\ Settled(last.before)
    /\ \E i, j \in Cells : /\ last.before[i].owner = 1 /\ last.before[i].orbs > 0
                           /\ last.before[j].owner = 2 /\ last.before[j].orbs > 0
    /\ last.explosions = 0 /\ last.iterations = 1

\* C23: for every coordinate of the grid, capacity + 1 equals neighborCount
\* and the number of coordinates getNeighborCoords returns; corners have
\* capacity 1, edges 2, interior cells 3, and the grid has exactly 4 corners.
C23_CapacityIsNeighborsMinusOne ==
    last.op = "createCell" =>
        /\ \A rc \in DOMAIN last.result :
              LET cell == last.result[rc]
                  border == (IF rc[1] \in {0, last.rows - 1} THEN 1 ELSE 0)
                          + (IF rc[2] \in {0, last.cols - 1} THEN 1 ELSE 0)
              IN  /\ cell.capacity + 1 = cell.neighborCount
                  /\ cell.capacity + 1 = Len(cell.neighbors)
                  /\ cell.type = (IF border = 2 THEN "corner"
                                  ELSE IF border = 1 THEN "edge" ELSE "center")
                  /\ cell.capacity = (IF cell.type = "corner" THEN 1
                                      ELSE IF cell.type = "edge" THEN 2 ELSE 3)
        /\ Cardinality({rc \in DOMAIN last.result :
                            last.result[rc].type = "corner"}) = 4

\* createCell was applied to the 9 x 6 grid of the source, which has cells of
\* the three types
C23_Witness ==
    /\ last.op = "createCell" /\ last.rows = 9 /\ last.cols = 6
    /\ last.result[<<0, 0>>].type = "corner" /\ last.result[<<0, 0>>].capacity = 1
    /\ last.result[<<0, 3>>].type = "edge" /\ last.result[<<0, 3>>].capacity = 2
    /\ last.result[<<4, 3>>].type = "center" /\ last.result[<<4, 3>>].capacity = 3

\* C24: whenever a turn ends, the explosion queue drained and movesMade
\* increased, the grid is settled: every cell has orbs <= capacity.
C24_TurnEndsOnSettledGrid ==
    (last.op = "endOfChain" /\ explosionQueue = <<>> /\ ~isAnimating)
        => Settled(grid)

\* A turn that ran explosions ended and the next competitor is to move
C24_Witness ==
    /\ last.op = "endOfChain" /\ ~isAnimating /\ explosionQueue = <<>>
    /\ Settled(grid) /\ winner = 0 /\ gameActive
    /\ currentPlayer # mover
    /\ \E i \in Cells : grid[i].owner = mover /\ grid[i].orbs > 0
    /\ TotalOrbs(grid) >= 4

\* C25: after an explosion every neighbour of the exploded cell is owned by
\* the owner the exploding cell had just before the explosion, also when the
\* exploding cell drops to 0 orbs and becomes unclaimed in the same step.
C25_NeighborsTakeOwnerAtExplosion ==
    [][last'.op = "explosion" =>
           LET neighbors == getNeighborCoords(last'.r, last'.c)
               before == grid[getCell(grid, last'.r, last'.c)].owner
           IN  /\ before # 0
               /\ \A k \in 1..Len(neighbors) :
                     grid'[getCell(grid, neighbors[k][1], neighbors[k][2])].owner
                         = before]_vars

\* A cell exploded, was left without orbs and unclaimed, and its neighbours
\* belong to the owner it had
C25_Witness ==
    /\ last.op = "explosion" /\ last.player # 0
    /\ grid[getCell(grid, last.r, last.c)] = [orbs |-> 0, owner |-> 0]
    /\ \A k \in 1..Len(getNeighborCoords(last.r, last.c)) :
          LET n == getNeighborCoords(last.r, last.c)[k]
          IN  grid[getCell(grid, n[1], n[2])].owner = last.player

\* The application's cascade ended at the end of its chain, not at the safety
\* limit, and the resolver of the tests ended on a grid without unstable cell
BothTerminate ==
    /\ last.app.ended.movesMade = last.app.placed.movesMade
           + (IF last.app.placed.isAnimating THEN 1 ELSE 0)
    /\ ~last.app.ended.isAnimating
    /\ Settled(grid)

\* C26: from the same settled grid and legal placement, the application's
\* cascade (one queue entry per step, first in first out) and the resolver of
\* the tests (the first unstable cell in row-major order per iteration) reach
\* the same settled grid, orbs and owner of every cell, when both terminate.
C26_QueueAndScanAgree ==
    (last.op = "makeMove" /\ Settled(last.before) /\ BothTerminate)
        => (last.app.ended.grid = grid /\ Settled(last.app.ended.grid))

\* A placement whose cascade exploded three cells or more, in both resolvers
C26_Witness ==
    /\ last.op = "makeMove" /\ Settled(last.before) /\ BothTerminate
    /\ last.app.placed.isAnimating
    /\ last.app.ended.grid = grid
    /\ Cardinality({i \in Cells : grid[i].owner # last.before[i].owner}) >= 3
    /\ \E i \in Cells : last.before[i].owner \notin {0, last.player}
                          /\ grid[i].owner = last.player

\* C27: on a replica that called advancePlayer once for every move it
\* executed, NostrMultiplayer.isMyTurn() agrees with the check on the game
\* state, gameState.currentPlayer = the replica's player number, after every
\* move.
C27_IndexAgreesWithGameState ==
    (gameMode = "online-game" /\ legalPlay /\ winner = 0 /\ ~isAnimating
        /\ nostr.movesMade = movesMade /\ nostr.movesMade = TotalOrbs(grid))
        => (isMyTurn(nostr) <=> currentPlayer = myPlayerNumber)

\* C28: the player list never holds more than 4 players, nor two players with
\* the same id or with names that are equal when case is ignored; a join event
\* that would break either condition leaves the list as it was.
JoinBreaks(players, data) ==
    \/ Len(players) >= MaxPlayers
    \/ \E i \in 1..Len(players) :
           players[i].id = data.id
               \/ toLowerCase(players[i].name) = toLowerCase(data.name)

ListIsSound(players) ==
    /\ Len(players) <= MaxPlayers
    /\ \A i, j \in 1..Len(players) :
           i # j => /\ players[i].id # players[j].id
                    /\ toLowerCase(players[i].name) # toLowerCase(players[j].name)

C28_JoinKeepsListSound ==
    /\ [](ListIsSound(nostr.players))
    /\ [][(last'.op = "join" /\ JoinBreaks(nostr.players, last'.data))
              => nostr'.players = nostr.players]_vars

\* A full list met the join of a further client whose name differs from a
\* member's name in case only.
C28_Witness ==
    /\ last.op = "join"
    /\ Len(nostr.players) = MaxPlayers
    /\ \A i \in 1..Len(nostr.players) : nostr.players[i].id # last.data.id
    /\ \E i \in 1..Len(nostr.players) :
           /\ nostr.players[i].name # last.data.name
           /\ toLowerCase(nostr.players[i].name) = toLowerCase(last.data.name)

\* C29: after any sequence of join, leave and start events the player numbers
\* follow the list order: the player at index i (from 0) has number i + 1.
C29_NumbersFollowListOrder ==
    \A i \in 1..Len(nostr.players) : nostr.players[i].playerNumber = i

\* C30: the host is the first player of the list: whenever the list is not
\* empty hostId is the id of players[0], also after the host left.
C30_HostIsFirstPlayer ==
    Len(nostr.players) > 0 => nostr.hostId = nostr.players[1].id

\* C31: startGame succeeds only when the caller is the host and the list holds
\* at least 2 players; otherwise it returns false, publishes no start event and
\* leaves phase, player order and turn index as they were.
MayStart(nm) == pubkey = nm.hostId /\ Len(nm.players) >= 2

C31_StartNeedsHostAndTwoPlayers ==
    [][last'.op = "startGame" =>
         IF MayStart(nostr)
         THEN last'.ok /\ Len(last'.published) = 1
         ELSE /\ ~last'.ok
              /\ last'.published = <<>>
              /\ nostr'.phase = nostr.phase
              /\ nostr'.players = nostr.players
              /\ nostr'.currentPlayerIndex = nostr.currentPlayerIndex]_vars

\* startGame was refused on a client that is not the host while the list
\* holds at least 2 players.
C31_Witness ==
    /\ last.op = "startGame"
    /\ ~last.ok
    /\ Len(nostr.players) >= 2
    /\ nostr.hostId # pubkey
\* C32: no event and no call takes a finished game back to playing or to the
\* lobby, nor an idle session to playing: the phase moves idle -> lobby ->
\* playing -> finished and back to idle only.
C32_PhaseFollowsItsOrder ==
    [][/\ nostr.phase = "finished" => nostr'.phase \in {"finished", "idle"}
       /\ nostr.phase = "idle" => nostr'.phase \in {"idle", "lobby"}]_vars

\* C33: the value of aiScoreMove(grid, cell, p) less its jitter is the sum of
\* 10 if p owns the cell; 25 if the cell is at capacity, else 15 if it is one
\* below; 8 for a corner, 4 for an edge; 5 for every neighbour an opponent
\* holds with orbs, and 10 more for it if the cell is at capacity; minus 8
\* for every neighbour an opponent holds at capacity; the jitter is in [0, 3).
OpponentHolds(g, n, p) == g[n].owner # 0 /\ g[n].owner # p

NeighbourCells(cell) ==
    { n \in Cells : (rowOf(n) = rowOf(cell) /\ (colOf(n) - colOf(cell)) \in {0 - 1, 1})
                       \/ (colOf(n) = colOf(cell) /\ (rowOf(n) - rowOf(cell)) \in {0 - 1, 1}) }

ScoreTerms(g, cell, p) ==
    LET cap == Cardinality(NeighbourCells(cell)) - 1
        atCapacity == g[cell].orbs = cap
        attackable == { n \in NeighbourCells(cell) : OpponentHolds(g, n, p) /\ g[n].orbs > 0 }
        threats == { n \in NeighbourCells(cell) :
                       OpponentHolds(g, n, p)
                           /\ g[n].orbs = Cardinality(NeighbourCells(n)) - 1 }
    IN  (IF g[cell].owner = p THEN 10 ELSE 0)
      + (IF atCapacity THEN 25 ELSE IF g[cell].orbs = cap - 1 THEN 15 ELSE 0)
      + (IF cap = 1 THEN 8 ELSE IF cap = 2 THEN 4 ELSE 0)
      + Cardinality(attackable) * (IF atCapacity THEN 15 ELSE 5)
      - Cardinality(threats) * 8

C33_ScoreIsSumOfTerms ==
    last.op = "aiScoreMove" =>
        /\ \A x \in Cells \X Players : last.result[x] = ScoreTerms(last.before, x[1], x[2])
        /\ 0 <= last.jitter
        /\ last.jitter < 3 * RandomSteps

\* A cell at capacity that its player owns was scored next to opponents
\* about to explode, with a jitter above 0.
C33_Witness ==
    /\ last.op = "aiScoreMove"
    /\ last.jitter > 0
    /\ \E x \in Cells \X Players :
          /\ last.before[x[1]].owner = x[2]
          /\ last.before[x[1]].orbs = capacity(rowOf(x[1]), colOf(x[1]))
          /\ \E n \in NeighbourCells(x[1]) :
                /\ OpponentHolds(last.before, n, x[2])
                /\ last.before[n].orbs = capacity(rowOf(n), colOf(n))

\* C34: once a winner is set, the grid, currentPlayer, movesMade and winner
\* stay as they are, whatever placement arrives, until restartGame.
C34_WinnerFreezesTheMatch ==
    [][(winner # 0 /\ last'.op # "restartGame")
          => UNCHANGED <<grid, currentPlayer, movesMade, winner>>]_vars

\* A move event that validateMove accepts arrived after the winner was set.
C34_Witness ==
    /\ last.op = "lateMoveEvent"
    /\ winner # 0
    /\ validateMove(grid, last.r, last.c, last.player)

\* C35: whenever the application declares a winner, the winner is in the
\* roster and is the only competitor alive: it owns every cell that holds
\* orbs, and at least one cell holds orbs.
C35_WinnerIsSoleSurvivor ==
    winner # 0 =>
        /\ winner \in Range(activePlayers)
        /\ \E i \in Cells : grid[i].orbs > 0
        /\ \A i \in Cells : grid[i].orbs > 0 => grid[i].owner = winner

\* The winner was declared at the end of a cascade that took the last cell
\* of the other competitors.
C35_Witness ==
    /\ winner # 0
    /\ last.op = "endOfChain"
    /\ Cardinality({i \in Cells : grid[i].orbs > 0}) >= 2

\* C36: in every state of a match, the states inside a cascade included,
\* every cell holds 0 or more orbs and its owner is 0 exactly when it holds
\* no orb.
C36_OwnerIffOrbs ==
    \A i \in Cells : grid[i].orbs >= 0 /\ (grid[i].owner = 0 <=> grid[i].orbs = 0)

\* Inside a cascade, the cell that exploded last is empty and unclaimed.
C36_Witness ==
    /\ last.op = "explosion"
    /\ isAnimating
    /\ explosionQueue # <<>>
    /\ grid[getCell(grid, last.r, last.c)] = [orbs |-> 0, owner |-> 0]

\* C37: whenever no cascade is in progress, the orbs on the grid are as many
\* as movesMade.
C37_OrbsEqualMovesMade ==
    ~isAnimating => TotalOrbs(grid) = movesMade

\* C38: restartGame leaves a fresh match: an empty grid, the first roster
\* entry to move, movesMade 0, no winner, an empty explosion queue; and there,
\* as in every state with the game active, no winner and no cascade running,
\* every placement of the current competitor that validateMove accepts is
\* applied.
FreshMatch ==
    /\ grid = createGrid
    /\ currentPlayer = activePlayers[1]
    /\ movesMade = 0
    /\ winner = 0
    /\ explosionQueue = <<>>

PlacementApplied(r, c) ==
    executeMove(World, r, c, currentPlayer).grid
        = placeOrb(grid, getCell(grid, r, c), currentPlayer)

=============================================================================
